---------------------------- MODULE Spec2Model ----------------------------
(***************************************************************************)
(* Model of src/pieces.py: the per-kind movement generators                *)
(* (get_reachable_cells), the legality filter (Piece.get_valid_cells) and  *)
(* the evaluator (Piece.evaluate), together with the part of the Board     *)
(* collaborator they call.                                                 *)
(*                                                                         *)
(* A board value is a record [cells, piece]:                               *)
(*   cells : Cells -> 0..n      the grid; 0 is Python's None               *)
(*   piece : 1..n -> [kind, white, cell]   the Piece objects; cell is      *)
(*           <<row, col>> or NoCell (Python's None)                        *)
(* Scores are integers in hundredths (5.0 is 500).                         *)
(***************************************************************************)
EXTENDS Integers, Sequences, FiniteSets, TLC

\* ------------------------------------------------------------- bounds
\* Most other pieces on the board beside the mover, per specification.
MaxOthers == 2
MaxOthersEval == 1
MaxOthersFilter == 1
\* The latest check query (1-based) that the stubbed predicate lets fail.
MaxFailAt == 2
\* Most calls per behaviour in which the stubbed predicate fails.
MaxRaises == 1

\* ------------------------------------------------------ program constants
BoardSize == 8
WhiteStartRow == 1
BlackStartRow == 6
MobilityWeight == 5
PressureWeight == 10

KindNames == {"Pawn", "Knight", "Bishop", "Rook", "Queen", "King"}
SlidingKinds == {"Rook", "Bishop", "Queen"}

base_values ==
    [k \in KindNames |->
        CASE k = "Pawn" -> 100
          [] k = "Knight" -> 300
          [] k = "Bishop" -> 320
          [] k = "Rook" -> 500
          [] k = "Queen" -> 900
          [] k = "King" -> 20000]

RookDirections == << <<-1, 0>>, <<1, 0>>, <<0, -1>>, <<0, 1>> >>
BishopDirections == << <<-1, -1>>, <<-1, 1>>, <<1, -1>>, <<1, 1>> >>
QueenDirections == RookDirections \o BishopDirections
KnightJumps ==
    << <<2, 1>>, <<2, -1>>, <<-2, 1>>, <<-2, -1>>,
       <<1, 2>>, <<1, -2>>, <<-1, 2>>, <<-1, -2>> >>
KingSteps ==
    << <<-1, -1>>, <<-1, 0>>, <<-1, 1>>, <<0, -1>>,
       <<0, 1>>, <<1, -1>>, <<1, 0>>, <<1, 1>> >>

NoCell == << >>
Cells == (0 .. BoardSize - 1) \X (0 .. BoardSize - 1)

\* ------------------------------------------------- the Board collaborator
is_valid_cell(cell) ==
    /\ cell[1] >= 0 /\ cell[1] < BoardSize
    /\ cell[2] >= 0 /\ cell[2] < BoardSize

get_cell(b, cell) == b.cells[cell]

set_cell(b, cell, p) ==
    [cells |-> [b.cells EXCEPT ![cell] = p],
     piece |-> IF p = 0 THEN b.piece
               ELSE [b.piece EXCEPT ![p].cell = cell]]

cell_is_valid_and_empty(b, cell) ==
    is_valid_cell(cell) /\ get_cell(b, cell) = 0

piece_can_enter_cell(b, self, cell) ==
    /\ is_valid_cell(cell)
    /\ \/ get_cell(b, cell) = 0
       \/ b.piece[get_cell(b, cell)].white # b.piece[self].white

piece_can_hit_on_cell(b, self, cell) ==
    /\ is_valid_cell(cell)
    /\ get_cell(b, cell) # 0
    /\ b.piece[get_cell(b, cell)].white # b.piece[self].white

\* --------------------------------------------------------------- Piece
is_white(b, self) == b.piece[self].white

can_enter_cell(b, self, cell) == piece_can_enter_cell(b, self, cell)

can_hit_on_cell(b, self, cell) == piece_can_hit_on_cell(b, self, cell)

\* ------------------------------------------------- movement generators
\* The while-loop of the sliding pieces, from cell <<nr, nc>> outward.
RECURSIVE Ray(_, _, _, _, _, _)
Ray(b, self, nr, nc, dr, dc) ==
    LET cell == <<nr, nc>> IN
    IF cell_is_valid_and_empty(b, cell)
    THEN <<cell>> \o Ray(b, self, nr + dr, nc + dc, dr, dc)
    ELSE IF can_hit_on_cell(b, self, cell) THEN <<cell>>
    ELSE << >>

\* The for-loop over the directions, from direction i on.
RECURSIVE Slide(_, _, _, _)
Slide(b, self, directions, i) ==
    IF i > Len(directions) THEN << >>
    ELSE LET r == b.piece[self].cell[1]
             c == b.piece[self].cell[2]
             dr == directions[i][1]
             dc == directions[i][2]
         IN Ray(b, self, r + dr, c + dc, dr, dc)
              \o Slide(b, self, directions, i + 1)

\* The for-loop of the stepping pieces over their fixed offsets.
StepTargets(b, self, offsets) ==
    LET r == b.piece[self].cell[1]
        c == b.piece[self].cell[2]
        targets == [i \in 1 .. Len(offsets) |->
                       <<r + offsets[i][1], c + offsets[i][2]>>]
    IN SelectSeq(targets,
                 LAMBDA cell : can_enter_cell(b, self, cell)
                               \/ can_hit_on_cell(b, self, cell))

\* Mutant: the double step is tested beside the single step, not under it.
Pawn_jumping(b, self) ==
    LET r == b.piece[self].cell[1]
        c == b.piece[self].cell[2]
        direction == IF is_white(b, self) THEN 1 ELSE -1
        start_row == IF is_white(b, self) THEN WhiteStartRow ELSE BlackStartRow
        one_step == <<r + direction, c>>
        two_step == <<r + 2 * direction, c>>
        diag_left == <<r + direction, c - 1>>
        diag_right == <<r + direction, c + 1>>
    IN (IF cell_is_valid_and_empty(b, one_step) THEN <<one_step>> ELSE << >>)
         \o (IF r = start_row /\ cell_is_valid_and_empty(b, two_step)
             THEN <<two_step>> ELSE << >>)
         \o (IF can_hit_on_cell(b, self, diag_left) THEN <<diag_left>> ELSE << >>)
         \o (IF can_hit_on_cell(b, self, diag_right) THEN <<diag_right>> ELSE << >>)

Pawn_get_reachable_cells(b, self) ==
    LET r == b.piece[self].cell[1]
        c == b.piece[self].cell[2]
        direction == IF is_white(b, self) THEN 1 ELSE -1
        start_row == IF is_white(b, self) THEN WhiteStartRow ELSE BlackStartRow
        one_step == <<r + direction, c>>
        two_step == <<r + 2 * direction, c>>
        diag_left == <<r + direction, c - 1>>
        diag_right == <<r + direction, c + 1>>
        forward ==
            IF cell_is_valid_and_empty(b, one_step)
            THEN <<one_step>> \o
                 (IF r = start_row /\ cell_is_valid_and_empty(b, two_step)
                  THEN <<two_step>> ELSE << >>)
            ELSE << >>
    IN forward
         \o (IF can_hit_on_cell(b, self, diag_left) THEN <<diag_left>> ELSE << >>)
         \o (IF can_hit_on_cell(b, self, diag_right) THEN <<diag_right>> ELSE << >>)

\* Mutant: the rook's loop without the break after a capture.
RECURSIVE RayThrough(_, _, _, _, _, _)
RayThrough(b, self, nr, nc, dr, dc) ==
    LET cell == <<nr, nc>> IN
    IF cell_is_valid_and_empty(b, cell) \/ can_hit_on_cell(b, self, cell)
    THEN <<cell>> \o RayThrough(b, self, nr + dr, nc + dc, dr, dc)
    ELSE << >>

Rook_without_break(b, self) ==
    LET r == b.piece[self].cell[1]
        c == b.piece[self].cell[2]
    IN RayThrough(b, self, r - 1, c, -1, 0) \o RayThrough(b, self, r + 1, c, 1, 0)
         \o RayThrough(b, self, r, c - 1, 0, -1) \o RayThrough(b, self, r, c + 1, 0, 1)

Rook_get_reachable_cells(b, self) == Slide(b, self, RookDirections, 1)

\* Mutant: the knight takes every jump that stays on the board.
Knight_any_target(b, self) ==
    LET r == b.piece[self].cell[1]
        c == b.piece[self].cell[2]
        targets == [i \in 1 .. Len(KnightJumps) |->
                       <<r + KnightJumps[i][1], c + KnightJumps[i][2]>>]
    IN SelectSeq(targets, is_valid_cell)

Knight_get_reachable_cells(b, self) == StepTargets(b, self, KnightJumps)

Bishop_get_reachable_cells(b, self) == Slide(b, self, BishopDirections, 1)

Queen_get_reachable_cells(b, self) == Slide(b, self, QueenDirections, 1)

King_get_reachable_cells(b, self) == StepTargets(b, self, KingSteps)

\* Dispatch on the class of self; self is placed.
reachable_cells_of(b, self) ==
    CASE b.piece[self].kind = "Pawn" -> Pawn_get_reachable_cells(b, self)
      [] b.piece[self].kind = "Rook" -> Rook_get_reachable_cells(b, self)
      [] b.piece[self].kind = "Knight" -> Knight_get_reachable_cells(b, self)
      [] b.piece[self].kind = "Bishop" -> Bishop_get_reachable_cells(b, self)
      [] b.piece[self].kind = "Queen" -> Queen_get_reachable_cells(b, self)
      [] b.piece[self].kind = "King" -> King_get_reachable_cells(b, self)

\* Mutant: an unplaced piece has no reachable cells.
get_reachable_cells_or_empty(b, self, boardFails) ==
    IF boardFails THEN [outcome |-> "raised", cells |-> << >>]
    ELSE IF b.piece[self].cell = NoCell
    THEN [outcome |-> "returned", cells |-> << >>]
    ELSE [outcome |-> "returned", cells |-> reachable_cells_of(b, self)]

\* A call of get_reachable_cells: "r, c = self.cell" raises on an unplaced
\* piece before any board query; a failing board predicate propagates.
get_reachable_cells(b, self, boardFails) ==
    IF b.piece[self].cell = NoCell \/ boardFails
    THEN [outcome |-> "raised", cells |-> << >>]
    ELSE [outcome |-> "returned", cells |-> reachable_cells_of(b, self)]


\* ----------------------------------------------------------- evaluator
\* Mutant: the pressure term is left out.
evaluate_without_pressure(b, self, reachFails, hitFails) ==
    LET got == get_reachable_cells(b, self, reachFails)
    IN [outcome |-> "returned",
        score |-> base_values[b.piece[self].kind]
                    + (IF got.outcome = "returned"
                       THEN MobilityWeight * Len(got.cells) ELSE 0)]

\* Mutant: one try block around both terms, so that a failure of the
\* reachable-cell computation is not caught where the list is first used.
evaluate_unguarded(b, self, reachFails, hitFails) ==
    LET got == get_reachable_cells(b, self, reachFails)
        hit_count == Len(SelectSeq(got.cells,
                            LAMBDA cell : can_hit_on_cell(b, self, cell)))
    IN IF got.outcome = "raised"
       THEN [outcome |-> "raised", score |-> 0]
       ELSE [outcome |-> "returned",
             score |-> base_values[b.piece[self].kind]
                         + MobilityWeight * Len(got.cells)
                         + (IF hitFails /\ Len(got.cells) > 0 THEN 0
                            ELSE PressureWeight * hit_count)]

\* Piece.evaluate: base + mobility + pressure, each try block of its own.
\* When get_reachable_cells raised, "reachable" is unbound and the loop of
\* the second try block raises a NameError, which that block catches.
evaluate(b, self, reachFails, hitFails) ==
    LET base == base_values[b.piece[self].kind]
        got == get_reachable_cells(b, self, reachFails)
        mobility == IF got.outcome = "returned"
                    THEN MobilityWeight * Len(got.cells) ELSE 0
        hit_count == Len(SelectSeq(got.cells,
                            LAMBDA cell : can_hit_on_cell(b, self, cell)))
        pressure == IF got.outcome = "raised" THEN 0
                    ELSE IF hitFails /\ Len(got.cells) > 0 THEN 0
                    ELSE PressureWeight * hit_count
    IN [outcome |-> "returned", score |-> base + mobility + pressure]

\* ------------------------------------------------------ legality filter
\* The board's check predicate is outside this core.  It is a function of
\* the board and the colour; the stub answers from one of four tables.
CheckTables == {"never", "always", "odd", "even"}

OddCells(b, white) ==
    {cell \in Cells : /\ b.cells[cell] # 0
                      /\ b.piece[b.cells[cell]].white = white
                      /\ (cell[1] + cell[2]) % 2 = 1}

is_king_check_cached(table, b, white) ==
    CASE table = "never" -> FALSE
      [] table = "always" -> TRUE
      [] table = "odd" -> Cardinality(OddCells(b, white)) % 2 = 1
      [] table = "even" -> Cardinality(OddCells(b, white)) % 2 = 0

\* How the predicate behaves during one call: it answers from a table, and
\* its query numbered failAt (none when 0) raises instead of answering.
Oracles ==
    {[table |-> t, failAt |-> 0] : t \in CheckTables}
        \cup {[table |-> "odd", failAt |-> k] : k \in 1 .. MaxFailAt}

\* Entries of the trace of board operations a call performs.
LogGet(cell, occupant) ==
    [op |-> "get_cell", cell |-> cell, piece |-> occupant, ans |-> ""]
LogSet(cell, p) ==
    [op |-> "set_cell", cell |-> cell, piece |-> p, ans |-> ""]
LogCheck(ans) ==
    [op |-> "is_king_check_cached", cell |-> NoCell, piece |-> 0, ans |-> ans]

\* The state of a running get_valid_cells call is [outcome, board, valid,
\* log]; each board operation acts on the board and adds its trace entry.
do_get_cell(st, cell) ==
    [st EXCEPT !.log = Append(@, LogGet(cell, get_cell(st.board, cell)))]

do_set_cell(st, cell, p) ==
    [st EXCEPT !.board = set_cell(@, cell, p), !.log = Append(@, LogSet(cell, p))]

\* "temporarily move self to target"
Simulate(st, self, target) == do_set_cell(st, target, self)

\* "in_check = self.board.is_king_check_cached(self.is_white())"; the query
\* raises when orc says so, and the call ends with the board as it stands.
Query(st, self, orc, i) ==
    IF orc.failAt = i
    THEN [st EXCEPT !.outcome = "raised", !.valid = << >>,
                    !.log = Append(@, LogCheck("raised"))]
    ELSE [st EXCEPT !.log = Append(@,
            LogCheck(IF is_king_check_cached(orc.table, st.board,
                                             is_white(st.board, self))
                     THEN "true" ELSE "false"))]

\* Mutant: the captured occupant is put back before the mover.
Restore_captured_first(st, self, old_cell, target, captured) ==
    do_set_cell(do_set_cell(st, target, captured), old_cell, self)

\* "restore original board state"
Restore(st, self, old_cell, target, captured) ==
    do_set_cell(do_set_cell(st, old_cell, self), target, captured)

\* Mutant: the test of in_check is inverted.
Keep_in_check(st, target, in_check) ==
    IF in_check THEN [st EXCEPT !.valid = Append(@, target)] ELSE st

\* "if not in_check: valid.append(target)"
Keep(st, target, in_check) ==
    IF ~in_check THEN [st EXCEPT !.valid = Append(@, target)] ELSE st

\* One pass of the for-loop's body, on candidate i.
Cycle(st, self, target, old_cell, orc, i) ==
    LET captured == get_cell(st.board, target)
        asked == Query(Simulate(do_get_cell(st, target), self, target), self, orc, i)
        in_check == asked.log[Len(asked.log)].ans = "true"
    IN IF asked.outcome = "raised" THEN asked
       ELSE Keep(Restore(asked, self, old_cell, target, captured), target, in_check)

\* The for-loop over the candidates, from candidate i on.
RECURSIVE FilterLoop(_, _, _, _, _, _)
FilterLoop(st, self, reachable, i, old_cell, orc) ==
    IF st.outcome = "raised" THEN st
    ELSE IF i > Len(reachable) THEN [st EXCEPT !.outcome = "returned"]
    ELSE FilterLoop(Cycle(st, self, reachable[i], old_cell, orc, i),
                    self, reachable, i + 1, old_cell, orc)

\* Piece.get_valid_cells.  The reachable cells are computed first; if that
\* raises, nothing has touched the board.
get_valid_cells(b, self, orc) ==
    LET got == get_reachable_cells(b, self, FALSE)
    IN IF got.outcome = "raised"
       THEN [outcome |-> "raised", board |-> b, valid |-> << >>, log |-> << >>]
       ELSE FilterLoop([outcome |-> "running", board |-> b,
                        valid |-> << >>, log |-> << >>],
                       self, got.cells, 1, b.piece[self].cell, orc)


\* --------------------------------------------------------------- state
VARIABLES
    board,      \* the Board and its Piece objects, as they are now
    pre,        \* the board when the last call began
    op,         \* the last call: its method, or "none"
    this,       \* the piece the last call was made on
    args,       \* how the collaborator behaved during the last call
    outcome,    \* "returned" or "raised"
    retCells,   \* the list a get_reachable_cells / get_valid_cells call returned
    retScore,   \* the number an evaluate call returned, in hundredths
    log,        \* the board operations get_valid_cells performed, in order
    raises      \* how many calls the check predicate has made fail so far
\* A call overwrites the record of the call before it: retCells, retScore and
\* log hold the results of the last call only.

vars == <<board, pre, op, this, args, outcome, retCells, retScore, log, raises>>

\* ------------------------------------------------------- board setup
\* The positions a specification starts from: a mover of any kind and colour
\* on an anchor cell, up to n other pieces (pawns of either colour) near it,
\* and one more Piece object of the mover's kind that was never placed.
ReachAnchors == {<<0, 0>>, <<1, 1>>, <<6, 7>>, <<7, 7>>}
FilterAnchors == {<<0, 0>>}
NearOffsets == {-2, -1, 0, 1, 2}
AdjacentOffsets == {-1, 0, 1}
ForwardOffsets == {0, 1}

Near(anchor, offsets) ==
    {cell \in Cells : /\ cell # anchor
                      /\ cell[1] - anchor[1] \in offsets
                      /\ cell[2] - anchor[2] \in offsets}

RECURSIVE SubsetsUpTo(_, _)
SubsetsUpTo(S, n) ==
    IF n = 0 THEN {{}}
    ELSE LET smaller == SubsetsUpTo(S, n - 1)
         IN smaller \cup {T \cup {x} : T \in smaller, x \in S}

CellIndex(cell) == cell[1] * BoardSize + cell[2]

\* The place (1-based) of cell among the cells of T in row-major order.
Rank(T, cell) == Cardinality({x \in T : CellIndex(x) <= CellIndex(cell)})

MkBoard(kind, white, anchor, T, colour) ==
    LET n == Cardinality(T)
    IN [cells |-> [cell \in Cells |->
                     IF cell = anchor THEN 1
                     ELSE IF cell \in T THEN 1 + Rank(T, cell)
                     ELSE 0],
        piece |-> [p \in 1 .. n + 2 |->
                     IF p = 1
                     THEN [kind |-> kind, white |-> white, cell |-> anchor]
                     ELSE IF p = n + 2
                     THEN [kind |-> kind, white |-> white, cell |-> NoCell]
                     ELSE [kind |-> "Pawn",
                           white |-> colour[CHOOSE x \in T : Rank(T, x) = p - 1],
                           cell |-> CHOOSE x \in T : Rank(T, x) = p - 1]]]

NoArgs == [boardFails |-> FALSE, hitFails |-> FALSE, table |-> "never", failAt |-> 0]

InitOn(anchors, offsets, n) ==
    /\ \E anchor \in anchors :
         \E T \in SubsetsUpTo(Near(anchor, offsets), n) :
           \E colour \in [T -> BOOLEAN], kind \in KindNames, white \in BOOLEAN :
             board = MkBoard(kind, white, anchor, T, colour)
    /\ pre = board
    /\ op = "none"
    /\ this = 0
    /\ args = NoArgs
    /\ outcome = "none"
    /\ retCells = << >>
    /\ retScore = 0
    /\ log = << >>
    /\ raises = 0

\* ------------------------------------------------------------- actions
\* Single-threaded and synchronous: a call is made when none is pending.  The
\* board is whatever the calls before left, a failed call included.
CanCall == op = "none"

CallGetReachableCells ==
    /\ CanCall
    /\ \E s \in DOMAIN board.piece :
          LET got == get_reachable_cells(board, s, FALSE)
          IN /\ op' = "get_reachable_cells"
             /\ this' = s
             /\ args' = NoArgs
             /\ pre' = board
             /\ outcome' = got.outcome
             /\ retCells' = got.cells
             /\ retScore' = 0
             /\ log' = << >>
             /\ UNCHANGED <<board, raises>>

CallEvaluate ==
    /\ CanCall
    /\ \E s \in DOMAIN board.piece, f \in BOOLEAN, h \in BOOLEAN :
          LET got == evaluate(board, s, f, h)
          IN /\ op' = "evaluate"
             /\ this' = s
             /\ args' = [NoArgs EXCEPT !.boardFails = f, !.hitFails = h]
             /\ pre' = board
             /\ outcome' = got.outcome
             /\ retScore' = got.score
             /\ retCells' = << >>
             /\ log' = << >>
             /\ UNCHANGED <<board, raises>>

\* piece.get_valid_cells() on any Piece object of the board, with the check
\* predicate stubbed by an oracle.  The board becomes what the call leaves,
\* whether it returned or raised.  At most MaxRaises calls of a behaviour
\* have their predicate fail.
CallGetValidCells ==
    /\ CanCall
    /\ \E s \in DOMAIN board.piece, orc \in Oracles :
          LET got == get_valid_cells(board, s, orc)
              failed == got.outcome = "raised" /\ got.log # << >>
          IN /\ failed => raises < MaxRaises
             /\ raises' = IF failed THEN raises + 1 ELSE raises
             /\ op' = "get_valid_cells"
             /\ this' = s
             /\ args' = [NoArgs EXCEPT !.table = orc.table, !.failAt = orc.failAt]
             /\ pre' = board
             /\ board' = got.board
             /\ outcome' = got.outcome
             /\ retCells' = got.valid
             /\ log' = got.log
             /\ retScore' = 0

\* The caller drops the result (or the exception) of the last call; the board
\* stays as that call left it.
Discard ==
    /\ op # "none"
    /\ op' = "none"
    /\ this' = 0
    /\ args' = NoArgs
    /\ outcome' = "none"
    /\ retCells' = << >>
    /\ retScore' = 0
    /\ log' = << >>
    /\ pre' = board
    /\ UNCHANGED <<board, raises>>

\* ------------------------------------------------------ specifications
\* The legality filter and the generators it consumes.
Init == InitOn(FilterAnchors, ForwardOffsets, MaxOthersFilter)

Next == CallGetValidCells \/ CallGetReachableCells \/ Discard

Spec == Init /\ [][Next]_vars

\* The movement generators alone, from positions with more pieces.
InitReach == InitOn(ReachAnchors, NearOffsets, MaxOthers)

NextReach == CallGetReachableCells \/ Discard

SpecReach == InitReach /\ [][NextReach]_vars

\* The evaluator alone, with the mover on every cell of the board.
InitEval == InitOn(Cells, AdjacentOffsets, MaxOthersEval)

NextEval == CallEvaluate \/ Discard

SpecEval == InitEval /\ [][NextEval]_vars


\* ------------------------------------------------- vocabulary of the claims
Range(seq) == {seq[i] : i \in 1 .. Len(seq)}

InBounds(cell) == cell \in Cells

EmptyAt(b, cell) == b.cells[cell] = 0

EnemyAt(b, s, cell) ==
    b.cells[cell] # 0 /\ b.piece[b.cells[cell]].white # b.piece[s].white

FriendAt(b, s, cell) ==
    b.cells[cell] # 0 /\ b.piece[b.cells[cell]].white = b.piece[s].white

Placed(b, s) == b.piece[s].cell # NoCell

Returned(method) == op = method /\ outcome = "returned"

\* The k-th cell from pos in direction d.
RayCell(pos, d, k) == <<pos[1] + k * d[1], pos[2] + k * d[2]>>

UnitSteps == {d \in {-1, 0, 1} \X {-1, 0, 1} : d # <<0, 0>>}

RayDirs(kind) ==
    CASE kind = "Rook" -> {d \in UnitSteps : d[1] = 0 \/ d[2] = 0}
      [] kind = "Bishop" -> {d \in UnitSteps : d[1] # 0 /\ d[2] # 0}
      [] kind = "Queen" -> UnitSteps

\* Every cell before the k-th on the ray is on the board and empty.
ClearBefore(b, pos, d, k) ==
    \A j \in 1 .. k - 1 :
        InBounds(RayCell(pos, d, j)) /\ EmptyAt(b, RayCell(pos, d, j))

\* ---------------------------------------------------------------- C3
\* C3: for a Rook, Bishop or Queen and each of its ray directions, a cell of
\* the ray is returned by get_reachable_cells exactly when it is on the
\* board, every cell before it on the ray is empty, and it is itself empty
\* or holds an enemy piece.  So the run of empty cells is included, a
\* friendly blocker and everything beyond it is excluded, and an enemy
\* blocker is included and everything beyond it excluded.
C3_SlidingRays ==
    (Returned("get_reachable_cells") /\ pre.piece[this].kind \in SlidingKinds) =>
        LET pos == pre.piece[this].cell IN
        \A d \in RayDirs(pre.piece[this].kind) : \A k \in 1 .. BoardSize :
            LET cell == RayCell(pos, d, k) IN
            (cell \in Range(retCells)) <=>
                /\ InBounds(cell)
                /\ ClearBefore(pre, pos, d, k)
                /\ EmptyAt(pre, cell) \/ EnemyAt(pre, this, cell)

\* A sliding piece with an enemy two cells away on one ray (the empty cell
\* and the enemy cell returned, the cell behind it not) and a friendly piece
\* next to it on another ray (not returned, nor the cell behind it).
C3_Witness ==
    /\ Returned("get_reachable_cells")
    /\ pre.piece[this].kind \in SlidingKinds
    /\ LET pos == pre.piece[this].cell IN
       /\ \E d \in RayDirs(pre.piece[this].kind) :
            /\ InBounds(RayCell(pos, d, 3))
            /\ EmptyAt(pre, RayCell(pos, d, 1))
            /\ EnemyAt(pre, this, RayCell(pos, d, 2))
            /\ RayCell(pos, d, 1) \in Range(retCells)
            /\ RayCell(pos, d, 2) \in Range(retCells)
            /\ RayCell(pos, d, 3) \notin Range(retCells)
       /\ \E d \in RayDirs(pre.piece[this].kind) :
            /\ InBounds(RayCell(pos, d, 2))
            /\ FriendAt(pre, this, RayCell(pos, d, 1))
            /\ EmptyAt(pre, RayCell(pos, d, 2))
            /\ RayCell(pos, d, 1) \notin Range(retCells)
            /\ RayCell(pos, d, 2) \notin Range(retCells)

\* ---------------------------------------------------------------- C4
\* C4: every cell get_reachable_cells returns, for every kind, colour and
\* position, is on the board and is empty or holds an enemy piece; the
\* piece's own cell is never returned.
C4_ReachableCellsEnterable ==
    Returned("get_reachable_cells") =>
        \A i \in 1 .. Len(retCells) :
            /\ InBounds(retCells[i])
            /\ EmptyAt(pre, retCells[i]) \/ EnemyAt(pre, this, retCells[i])
            /\ ~FriendAt(pre, this, retCells[i])
            /\ retCells[i] # pre.piece[this].cell

\* A Knight or King with a friendly piece on one of its targets (left out)
\* and an enemy piece on another (returned).
C4_Witness ==
    /\ Returned("get_reachable_cells")
    /\ pre.piece[this].kind \in {"Knight", "King"}
    /\ \E cell \in Range(retCells) : EnemyAt(pre, this, cell)
    /\ LET pos == pre.piece[this].cell
           offs == IF pre.piece[this].kind = "Knight"
                   THEN Range(KnightJumps) ELSE Range(KingSteps)
       IN \E d \in offs :
            /\ InBounds(RayCell(pos, d, 1))
            /\ FriendAt(pre, this, RayCell(pos, d, 1))
            /\ RayCell(pos, d, 1) \notin Range(retCells)

\* ---------------------------------------------------------------- C5
\* The cells a placed Pawn may go to, as the claim states them.
PawnCells(b, s) ==
    LET r == b.piece[s].cell[1]
        c == b.piece[s].cell[2]
        fwd == IF b.piece[s].white THEN 1 ELSE -1
        start == IF b.piece[s].white THEN WhiteStartRow ELSE BlackStartRow
        one == <<r + fwd, c>>
        two == <<r + 2 * fwd, c>>
        Free(cell) == InBounds(cell) /\ EmptyAt(b, cell)
    IN {x \in {one} : Free(one)}
         \cup {x \in {two} : r = start /\ Free(one) /\ Free(two)}
         \cup {x \in {<<r + fwd, c - 1>>, <<r + fwd, c + 1>>} :
                  InBounds(x) /\ EnemyAt(b, s, x)}

\* C5: a placed Pawn's get_reachable_cells returns exactly: the cell one
\* step forward iff it is on the board and empty; the cell two steps forward
\* iff the pawn is on its colour's starting rank and both forward cells are
\* on the board and empty; each forward diagonal cell iff it holds an enemy.
C5_PawnCells ==
    (Returned("get_reachable_cells") /\ pre.piece[this].kind = "Pawn") =>
        /\ Range(retCells) = PawnCells(pre, this)
        /\ Len(retCells) = Cardinality(PawnCells(pre, this))

\* A pawn on its starting rank whose single step is blocked while the cell
\* two steps ahead is empty, with an enemy on one diagonal and the other
\* diagonal empty: only the capture is returned.
C5_Witness ==
    /\ Returned("get_reachable_cells")
    /\ pre.piece[this].kind = "Pawn"
    /\ LET r == pre.piece[this].cell[1]
           c == pre.piece[this].cell[2]
           fwd == IF pre.piece[this].white THEN 1 ELSE -1
       IN /\ r = (IF pre.piece[this].white THEN WhiteStartRow ELSE BlackStartRow)
          /\ ~EmptyAt(pre, <<r + fwd, c>>)
          /\ EmptyAt(pre, <<r + 2 * fwd, c>>)
          /\ \E side \in {-1, 1} :
                /\ InBounds(<<r + fwd, c + side>>)
                /\ InBounds(<<r + fwd, c - side>>)
                /\ EnemyAt(pre, this, <<r + fwd, c + side>>)
                /\ EmptyAt(pre, <<r + fwd, c - side>>)
                /\ retCells = << <<r + fwd, c + side>> >>


\* ---------------------------------------------------------------- C1
\* C1: when get_valid_cells returns, the board is exactly as it was when the
\* call began: every cell has the occupant it had and every piece (the mover
\* and any piece that stood on a candidate) the current cell it had, for any
\* number of candidates.  Violated by a call made on the board that an
\* earlier call left behind when its check predicate raised (C9).
C1_BoardRestored ==
    Returned("get_valid_cells") => board = pre

\* ---------------------------------------------------------------- C2
\* The trace entries of candidate i: get_cell, set_cell, is_king_check_cached,
\* set_cell, set_cell.
CycleEntry(i, step) == log[5 * (i - 1) + step]

\* Grid and Piece objects agree on board b: every placed piece stands on its
\* cell and every occupied cell holds the piece that says so.
GridAgrees(b) ==
    /\ \A p \in DOMAIN b.piece :
          b.piece[p].cell # NoCell => b.cells[b.piece[p].cell] = p
    /\ \A cell \in Cells :
          b.cells[cell] # 0 => b.piece[b.cells[cell]].cell = cell

\* The latest of a non-empty set of log positions.
Latest(W) == log[CHOOSE k \in W : \A m \in W : m <= k]

\* The board when log entry j was made: the pre-call board with every logged
\* set_cell before j applied in order, so a cell holds what was last written
\* on it and a piece stands where it was last written.
BoardAt(j) ==
    LET W == {k \in 1 .. j - 1 : log[k].op = "set_cell"}
        written == {log[k].cell : k \in W}
        moved == {log[k].piece : k \in W}
    IN [cells |-> [cell \in Cells |->
                     IF cell \in written
                     THEN Latest({k \in W : log[k].cell = cell}).piece
                     ELSE pre.cells[cell]],
        piece |-> [p \in DOMAIN pre.piece |->
                     IF p \in moved
                     THEN [pre.piece[p] EXCEPT
                             !.cell = Latest({k \in W : log[k].piece = p}).cell]
                     ELSE pre.piece[p]]]

\* The query of candidate i found the mover standing on target and logged the
\* answer the predicate gives for the mover's colour on the board as it was.
QueryAnswered(i, target) ==
    LET b == BoardAt(5 * (i - 1) + 3)
    IN /\ b.cells[target] = this
       /\ b.piece[this].cell = target
       /\ CycleEntry(i, 3).ans =
             (IF is_king_check_cached(args.table, b, b.piece[this].white)
              THEN "true" ELSE "false")

\* C2: get_valid_cells returns, in order, exactly the reachable cells whose
\* check query, made for the mover's colour while the mover stood on that
\* cell, answered false; nothing outside the reachable cells is returned.
\* The answer is the predicate's on the board as it was when queried; where
\* grid and pieces agreed before the call, that board is the pre-call board
\* with the mover written on the candidate.
C2_ValidIffNotInCheck ==
    Returned("get_valid_cells") =>
        LET reachable == reachable_cells_of(pre, this)
            kept == {i \in 1 .. Len(reachable) : CycleEntry(i, 3).ans = "false"}
        IN /\ Len(log) = 5 * Len(reachable)
           /\ \A i \in 1 .. Len(reachable) :
                /\ CycleEntry(i, 2) = LogSet(reachable[i], this)
                /\ CycleEntry(i, 3).op = "is_king_check_cached"
                /\ GridAgrees(pre) =>
                     CycleEntry(i, 3).ans =
                        (IF is_king_check_cached(args.table,
                                set_cell(pre, reachable[i], this),
                                pre.piece[this].white)
                         THEN "true" ELSE "false")
           /\ \A i \in 1 .. Len(reachable) : QueryAnswered(i, reachable[i])
           /\ Range(retCells) = {reachable[i] : i \in kept}
           /\ Len(retCells) = Cardinality(kept)
           /\ \A i, j \in 1 .. Len(retCells) :
                i < j => \E m, n \in kept :
                            /\ m < n
                            /\ reachable[m] = retCells[i]
                            /\ reachable[n] = retCells[j]

\* A returned call in which one candidate was kept and another dropped.
C2_Witness ==
    /\ Returned("get_valid_cells")
    /\ \E i, j \in 1 .. Len(reachable_cells_of(pre, this)) :
          /\ CycleEntry(i, 3).ans = "false"
          /\ CycleEntry(j, 3).ans = "true"
          /\ reachable_cells_of(pre, this)[i] \in Range(retCells)
          /\ reachable_cells_of(pre, this)[j] \notin Range(retCells)

\* ---------------------------------------------------------------- C8
\* C8: get_reachable_cells or get_valid_cells on a piece whose current cell
\* is unset raises; no list is returned and the board is not touched.
C8_UnplacedRaises ==
    (op \in {"get_reachable_cells", "get_valid_cells"} /\ ~Placed(pre, this)) =>
        /\ outcome = "raised"
        /\ retCells = << >>
        /\ log = << >>
        /\ board = pre

\* get_valid_cells called on the unplaced piece of a board that holds others.
C8_Witness ==
    /\ op = "get_valid_cells"
    /\ ~Placed(pre, this)
    /\ outcome = "raised"
    /\ \E cell \in Cells : pre.cells[cell] # 0

\* ---------------------------------------------------------------- C9
\* The check predicate raised during the last call.
CheckRaised ==
    /\ op = "get_valid_cells"
    /\ Len(log) > 0
    /\ log[Len(log)] = LogCheck("raised")

\* C9: if the check predicate raises while a candidate is simulated, the
\* failure reaches the caller and the board is back in its pre-call state:
\* the mover on its original cell, the target holding its occupant.
C9_RollbackOnFailure ==
    CheckRaised => (outcome = "raised" /\ board = pre)

\* ---------------------------------------------------------------- C10
\* What the j-th board operation of a call on candidates "reachable" must be.
ExpectedEntry(reachable, j) ==
    LET i == ((j - 1) \div 5) + 1
        step == ((j - 1) % 5) + 1
        target == reachable[i]
    IN CASE step = 1 -> log[j] = LogGet(target, pre.cells[target])
         [] step = 2 -> log[j] = LogSet(target, this)
         [] step = 3 -> /\ log[j].op = "is_king_check_cached"
                        /\ log[j].ans \in {"true", "false", "raised"}
         [] step = 4 -> log[j] = LogSet(pre.piece[this].cell, this)
         [] step = 5 -> log[j] = LogSet(target, log[j - 4].piece)

\* C10: the board operations of one get_valid_cells call are, candidate by
\* candidate in reachable-list order, get_cell(target), set_cell(target,
\* mover), is_king_check_cached, set_cell(origin, mover), set_cell(target,
\* captured): the mover is restored before the captured occupant, the
\* predicate is queried once per candidate, between the relocation and the
\* restore, and a candidate's restore ends before the next one begins.  A
\* call that returned ran the whole cycle for every candidate.
C10_SequentialCycles ==
    (op = "get_valid_cells" /\ Placed(pre, this)) =>
        LET reachable == reachable_cells_of(pre, this)
        IN /\ \A j \in 1 .. Len(log) : ExpectedEntry(reachable, j)
           /\ outcome = "returned" => Len(log) = 5 * Len(reachable)
           /\ outcome = "raised" => Len(log) = 5 * (args.failAt - 1) + 3

\* A returned call over at least two candidates, the first a capture.
C10_Witness ==
    /\ Returned("get_valid_cells")
    /\ Len(log) >= 10
    /\ log[1].op = "get_cell" /\ log[1].piece # 0
    /\ log[5] = LogSet(log[1].cell, log[1].piece)
    /\ log[6].op = "get_cell"


\* ---------------------------------------------------------------- C6
\* The pieces standing on the board beside piece s.
OthersOnBoard(b, s) == {p \in DOMAIN b.piece : p # s /\ Placed(b, p)}

\* The cells a rook on pos reaches on an empty board: its rank and its file.
OpenRookCells(pos) ==
    {cell \in Cells : cell # pos /\ (cell[1] = pos[1] \/ cell[2] = pos[2])}

\* The board cells behind the cell next to pos in direction d.
CellsBehind(pos, d) ==
    {k \in 2 .. BoardSize : InBounds(RayCell(pos, d, k))}

\* An evaluate call, with no failing collaborator, on a rook that is alone on
\* the board.
SolitaryRookEvaluated ==
    /\ Returned("evaluate")
    /\ ~args.boardFails /\ ~args.hitFails
    /\ Placed(pre, this)
    /\ pre.piece[this].kind = "Rook"
    /\ OthersOnBoard(pre, this) = {}

\* The same with exactly one other piece on the board: an enemy pawn on the
\* cell next to the rook in direction d of its rank or file.
RookWithPawnEvaluated(d) ==
    /\ Returned("evaluate")
    /\ ~args.boardFails /\ ~args.hitFails
    /\ Placed(pre, this)
    /\ pre.piece[this].kind = "Rook"
    /\ \E p \in DOMAIN pre.piece :
          /\ OthersOnBoard(pre, this) = {p}
          /\ pre.piece[p].kind = "Pawn"
          /\ pre.piece[p].white # pre.piece[this].white
          /\ pre.piece[p].cell = RayCell(pre.piece[this].cell, d, 1)

\* The score of the solitary rook on pos, as the claim states it.
RookBaseline(pos) ==
    base_values["Rook"] + MobilityWeight * Cardinality(OpenRookCells(pos))

\* C6 as stated: a solitary rook scores 5.0 + 0.05 x reachable cells, and
\* with an enemy pawn one cell away on its rank or file the score is exactly
\* 0.10 above that baseline, wherever the rook stands.
C6_PawnAddsTenHundredths ==
    /\ SolitaryRookEvaluated => retScore = RookBaseline(pre.piece[this].cell)
    /\ \A d \in RayDirs("Rook") :
          RookWithPawnEvaluated(d) =>
              retScore = RookBaseline(pre.piece[this].cell) + PressureWeight

\* C6 amended: a solitary rook scores 5.0 + 0.05 x reachable cells; with an
\* enemy pawn one cell away on its rank or file the score is that baseline
\* plus 0.10 minus 0.05 for every board cell behind the pawn on that ray,
\* which the pawn now shields.  The gain is 0.10 only for a pawn on the edge.
C6_PawnAddsPressureCutsMobility ==
    /\ SolitaryRookEvaluated => retScore = RookBaseline(pre.piece[this].cell)
    /\ \A d \in RayDirs("Rook") :
          RookWithPawnEvaluated(d) =>
              retScore = RookBaseline(pre.piece[this].cell) + PressureWeight
                           - MobilityWeight * Cardinality(CellsBehind(pre.piece[this].cell, d))

\* A rook evaluated with an enemy pawn next to it and board cells behind the
\* pawn: the score is below baseline + 0.10.
C6_Witness ==
    \E d \in RayDirs("Rook") :
        /\ RookWithPawnEvaluated(d)
        /\ CellsBehind(pre.piece[this].cell, d) # {}
        /\ retScore < RookBaseline(pre.piece[this].cell) + PressureWeight

\* ---------------------------------------------------------------- C7
\* The reachable-cell computation of the last evaluate call failed.
ReachFailed == args.boardFails \/ ~Placed(pre, this)

\* C7: evaluate never raises and never returns a negative number.  If the
\* reachable-cell computation fails (unplaced piece, failing board
\* predicate) the result is the base value of the kind; if only the capture
\* query of the pressure term fails, the pressure term is zero.
C7_EvaluateNeverFails ==
    op = "evaluate" =>
        /\ outcome = "returned"
        /\ retScore >= 0
        /\ ReachFailed => retScore = base_values[pre.piece[this].kind]
        /\ (~ReachFailed /\ args.hitFails) =>
              retScore = base_values[pre.piece[this].kind]
                           + MobilityWeight * Len(reachable_cells_of(pre, this))

\* An evaluate call on a placed piece that could capture, whose board
\* predicate failed during the reachable-cell computation.
C7_Witness ==
    /\ Returned("evaluate")
    /\ args.boardFails
    /\ Placed(pre, this)
    /\ \E cell \in Range(reachable_cells_of(pre, this)) : EnemyAt(pre, this, cell)
    /\ retScore = base_values[pre.piece[this].kind]

=============================================================================
